---- MODULE Spec2Model ----
(***************************************************************************)
(* Gothic Ripple Converter (src/App.tsx).                                  *)
(*                                                                         *)
(* The module models the ripple filter createRippleEffect and the React    *)
(* component state around it (image, processedImage, the three slider /    *)
(* select parameters, isProcessing, the hidden canvas).                    *)
(*                                                                         *)
(* Numbers.  Pixel coordinates and intensity are integers.  A frequency    *)
(* is held in thousandths of a radian per pixel (the slider's step is      *)
(* 0.001), and every multiplier the wave formulas use is a multiple of     *)
(* 0.1, so every angle x * frequency * k is an exact integer number of     *)
(* 1/Scale radians.  Math.sin and Math.cos are computed in fixed point     *)
(* (values in units of 1/Scale) by range reduction and a Taylor series.    *)
(* The keep/discard comparison is then exact integer arithmetic.           *)
(***************************************************************************)
EXTENDS Integers, Sequences, FiniteSets, TLC

VARIABLES
    \* ---- React state of App (useState, lines 11-16) ----
    image,            \* HTMLImageElement | null
    processedImage,   \* data URL | null
    rippleIntensity,
    rippleFrequency,  \* in thousandths
    wavePattern,
    isProcessing,
    \* ---- the hidden <canvas> (line 355) ----
    canvas,           \* [width, height, pixels]: what ctx.getImageData reads
    contextMode,      \* "none" until getContext('2d') has produced a context
    \* ---- one invocation of createRippleEffect ----
    args,             \* [width, height, intensity, frequency, pattern]
    heap,             \* the two ImageData buffers of the invocation
    returned,         \* name of the buffer handed back to the caller
    pc                \* "ready" | "returned"

vars == <<image, processedImage, rippleIntensity, rippleFrequency, wavePattern,
          isProcessing, canvas, contextMode, args, heap, returned, pc>>

appVars == <<image, processedImage, rippleIntensity, rippleFrequency,
             wavePattern, isProcessing, contextMode>>

callVars == <<args, heap, returned, pc>>

-----------------------------------------------------------------------------
(* Bounds of the model *)

MaxDim == 6              \* widths and heights of the filter's test canvases
MaxIntensity == 3        \* largest intensity handed to the filter directly
MaxSliderIntensity == 6  \* cap on the intensity slider's 5..50 range

-----------------------------------------------------------------------------
(* Fixed-point trigonometry: Math.sin / Math.cos *)

Scale == 10000
Pi == 31416
HalfPi == 15708
TwoPi == 62832

Abs(v) == IF v < 0 THEN 0 - v ELSE v

\* product of two fixed-point values, truncated towards zero
Mul(a, b) ==
    IF (a < 0) = (b < 0) THEN (Abs(a) * Abs(b)) \div Scale
    ELSE 0 - ((Abs(a) * Abs(b)) \div Scale)

\* sin t for 0 <= t <= HalfPi: t - t^3/3! + t^5/5! - t^7/7! + t^9/9!
SinQ(t) ==
    LET t2 == (t * t) \div Scale
        t3 == (t * t2) \div (6 * Scale)
        t5 == (t3 * t2) \div (20 * Scale)
        t7 == (t5 * t2) \div (42 * Scale)
        t9 == (t7 * t2) \div (72 * Scale)
    IN  t - t3 + t5 - t7 + t9

\* cos t for 0 <= t <= HalfPi: 1 - t^2/2! + t^4/4! - t^6/6! + t^8/8! - t^10/10!
CosQ(t) ==
    LET t2 == (t * t) \div Scale
        c2 == t2 \div 2
        c4 == (c2 * t2) \div (12 * Scale)
        c6 == (c4 * t2) \div (30 * Scale)
        c8 == (c6 * t2) \div (56 * Scale)
        c10 == (c8 * t2) \div (90 * Scale)
    IN  Scale - c2 + c4 - c6 + c8 - c10

Sin(a) ==
    LET r == a % TwoPi
    IN  IF r <= HalfPi THEN SinQ(r)
        ELSE IF r <= Pi THEN SinQ(Pi - r)
        ELSE IF r <= Pi + HalfPi THEN 0 - SinQ(r - Pi)
        ELSE 0 - SinQ(TwoPi - r)

Cos(a) ==
    LET r == a % TwoPi
    IN  IF r <= HalfPi THEN CosQ(r)
        ELSE IF r <= Pi THEN 0 - CosQ(Pi - r)
        ELSE IF r <= Pi + HalfPi THEN 0 - CosQ(r - Pi)
        ELSE CosQ(TwoPi - r)

-----------------------------------------------------------------------------
(* createRippleEffect, lines 20-99 *)

Patterns == {"gothic", "organic", "flame", "thorns"}

TransparentBlack == <<0, 0, 0, 0>>

\* variant: right and bottom distances measured as dimension - 1 - coordinate
MinDistSymmetric(x, y, width, height) ==
    LET Min2(a, b) == IF a <= b THEN a ELSE b
    IN  Min2(Min2(x, width - 1 - x), Min2(y, height - 1 - y))

\* lines 41-45
MinDistFromEdge(x, y, width, height) ==
    LET distFromLeft == x
        distFromRight == width - x
        distFromTop == y
        distFromBottom == height - y
        Min2(a, b) == IF a <= b THEN a ELSE b
    IN  Min2(Min2(distFromLeft, distFromRight), Min2(distFromTop, distFromBottom))

\* variant: the organic pattern's sines written as cosines
WaveValueCos(x, y, frequency, pattern) ==
    LET xf == x * frequency
        yf == y * frequency
    IN  CASE pattern = "gothic" ->
                Mul(Sin(xf * 10), Cos(yf * 13)) + Mul(Sin(yf * 7), Cos(xf * 8))
          [] pattern = "organic" ->
                Cos(xf * 12) + Cos(yf * 9) + Cos((x + y) * frequency * 5)
          [] pattern = "flame" ->
                Mul(Sin(xf * 10), Sin(yf * 20)) + Mul(Cos(xf * 3), Sin(yf * 15))
          [] pattern = "thorns" ->
                Mul(Abs(Sin(xf * 30)), Cos(yf * 10))
                    + Mul(Abs(Cos(yf * 20)), Sin(xf * 10))
          [] OTHER ->
                Sin(xf * 10) + Cos(yf * 10)

\* lines 52-73; the angle x * frequency * k is x * frequency * (10 k) in 1/Scale rad
WaveValue(x, y, frequency, pattern) ==
    LET xf == x * frequency
        yf == y * frequency
    IN  CASE pattern = "gothic" ->
                Mul(Sin(xf * 10), Cos(yf * 13)) + Mul(Sin(yf * 7), Cos(xf * 8))
          [] pattern = "organic" ->
                Sin(xf * 12) + Cos(yf * 9) + Sin((x + y) * frequency * 5)
          [] pattern = "flame" ->
                Mul(Sin(xf * 10), Sin(yf * 20)) + Mul(Cos(xf * 3), Sin(yf * 15))
          [] pattern = "thorns" ->
                Mul(Abs(Sin(xf * 30)), Cos(yf * 10))
                    + Mul(Abs(Cos(yf * 20)), Sin(xf * 10))
          [] OTHER ->
                Sin(xf * 10) + Cos(yf * 10)

\* variant: the ripple offset subtracted from the edge distance
ShouldIncludeMinus(x, y, width, height, intensity, frequency, pattern) ==
    LET minDistFromEdge == MinDistFromEdge(x, y, width, height)
    IN  IF minDistFromEdge < intensity * 2
        THEN LET waveValue == WaveValue(x, y, frequency, pattern)
                 rippleOffset3 == 3 * waveValue * (intensity - minDistFromEdge)
                 cutoffThreshold == 10 * Scale * minDistFromEdge - rippleOffset3
             IN  ~(cutoffThreshold < 8 * Scale * intensity)
        ELSE TRUE

\* variant: the offset factor 3 in place of 0.3
ShouldIncludeTenfold(x, y, width, height, intensity, frequency, pattern) ==
    LET minDistFromEdge == MinDistFromEdge(x, y, width, height)
    IN  IF minDistFromEdge < intensity * 2
        THEN LET waveValue == WaveValue(x, y, frequency, pattern)
                 rippleOffset3 == 30 * waveValue * (intensity - minDistFromEdge)
                 cutoffThreshold == 10 * Scale * minDistFromEdge + rippleOffset3
             IN  ~(cutoffThreshold < 8 * Scale * intensity)
        ELSE TRUE

\* lines 47-82: the decision for one pixel.  cutoffThreshold < intensity * 0.8,
\* both sides multiplied by 10 * Scale.
ShouldInclude(x, y, width, height, intensity, frequency, pattern) ==
    LET minDistFromEdge == MinDistFromEdge(x, y, width, height)
    IN  IF minDistFromEdge < intensity * 2
        THEN LET waveValue == WaveValue(x, y, frequency, pattern)
                 rippleOffset3 == 3 * waveValue * (intensity - minDistFromEdge)
                 cutoffThreshold == 10 * Scale * minDistFromEdge + rippleOffset3
             IN  ~(cutoffThreshold < 8 * Scale * intensity)
        ELSE TRUE

\* a bitmap holds the pixels written since it was last cleared; every other
\* pixel reads as transparent black
PixelAt(cv, i) == IF i \in DOMAIN cv.pixels THEN cv.pixels[i] ELSE TransparentBlack

\* line 28: a copy of the canvas rectangle (0, 0, width, height), row-major
GetImageData(cv, width, height) ==
    [i \in 0..(width * height - 1) |-> PixelAt(cv, i)]

\* line 30: a new buffer, every pixel transparent black
CreateImageData(width, height) ==
    [i \in 0..(width * height - 1) |-> TransparentBlack]

\* variant: the loops write into the source buffer
AliasedData == "imageData"

\* line 31: the buffer every write of the two loops goes to
NewData == "newImageData"

\* lines 34-36
ClearAlpha(h) ==
    [h EXCEPT ![NewData] = [i \in DOMAIN h[NewData] |-> [h[NewData][i] EXCEPT ![4] = 0]]]

\* variant: the alpha channel of a kept pixel is not copied (line 92 missing)
CopyLoopNoAlpha(h, width, height, intensity, frequency, pattern) ==
    LET data == h["imageData"]
        newData == h[NewData]
        n == width * height
    IN  [h EXCEPT ![NewData] =
            [i \in DOMAIN newData |->
                LET x == i % width
                    y == i \div width
                    sourceIndex == y * width + x
                IN  IF /\ ShouldInclude(x, y, width, height, intensity, frequency, pattern)
                       /\ sourceIndex >= 0
                       /\ sourceIndex < n
                    THEN [data[sourceIndex] EXCEPT ![4] = newData[i][4]]
                    ELSE newData[i]]]

\* variant: the source row stride is height, not width
CopyLoopHeightStride(h, width, height, intensity, frequency, pattern) ==
    LET data == h["imageData"]
        newData == h[NewData]
        n == width * height
    IN  [h EXCEPT ![NewData] =
            [i \in DOMAIN newData |->
                LET x == i % width
                    y == i \div width
                    sourceIndex == y * height + x
                IN  IF /\ ShouldInclude(x, y, width, height, intensity, frequency, pattern)
                       /\ sourceIndex >= 0
                       /\ sourceIndex < n
                    THEN data[sourceIndex]
                    ELSE newData[i]]]

\* lines 38-96: each pixel reads data at its own index only, so the loop is a map
CopyLoop(h, width, height, intensity, frequency, pattern) ==
    LET data == h["imageData"]
        newData == h[NewData]
        n == width * height
    IN  [h EXCEPT ![NewData] =
            [i \in DOMAIN newData |->
                LET x == i % width
                    y == i \div width
                    sourceIndex == y * width + x
                IN  IF /\ ShouldInclude(x, y, width, height, intensity, frequency, pattern)
                       /\ sourceIndex >= 0
                       /\ sourceIndex < n
                    THEN data[sourceIndex]
                    ELSE newData[i]]]

\* line 98: the buffer handed back
ReturnedBuffer == "newImageData"

\* lines 28-98, the heap when the function returns
CreateRippleEffect(cv, width, height, intensity, frequency, pattern) ==
    LET h0 == [imageData |-> GetImageData(cv, width, height),
               newImageData |-> CreateImageData(width, height)]
    IN  CopyLoop(ClearAlpha(h0), width, height, intensity, frequency, pattern)

-----------------------------------------------------------------------------
(* Test canvases *)

Alpha(k) == CASE k % 3 = 0 -> 255 [] k % 3 = 1 -> 128 [] OTHER -> 0

\* paint 1: opaque white; paint 2: a gradient with opaque, half-transparent
\* and fully transparent pixels (a canvas reports alpha-0 pixels as 0,0,0,0)
Paint(k, x, y) ==
    IF k = 1 THEN <<255, 255, 255, 255>>
    ELSE IF Alpha(x + 2 * y) = 0 THEN TransparentBlack
    ELSE <<(x * 37 + 11) % 256, (y * 59 + 7) % 256, ((x + y) * 23 + 3) % 256,
           Alpha(x + 2 * y)>>

Paints == {1, 2}

Picture(width, height, k) ==
    [width |-> width, height |-> height,
     pixels |-> [i \in 0..(width * height - 1) |-> Paint(k, i % width, i \div width)]]

NoHeap == [imageData |-> <<>>, newImageData |-> <<>>]

FilterCanvases == {Picture(w, h, k) : w \in 1..MaxDim, h \in 1..MaxDim, k \in Paints}

FilterIntensities == {0 - 1, 0} \cup (1..MaxIntensity)

\* thousandths of a radian per pixel: negative, zero, the slider's range, and large
FilterFrequencies == {0 - 20, 0, 20, 50, 400, 1300}

FilterPatterns == Patterns \cup {"unknown"}

NoArgs == [width |-> 0, height |-> 0, intensity |-> 0, frequency |-> 0, pattern |-> ""]

FilterArgs(cv) ==
    {[width |-> cv.width, height |-> cv.height, intensity |-> i, frequency |-> f,
      pattern |-> p] : i \in FilterIntensities, f \in FilterFrequencies, p \in FilterPatterns}

-----------------------------------------------------------------------------
(* The component: useState initial values, lines 11-16 *)

\* null, for image and processedImage
NoImage == [null |-> TRUE]

DefaultIntensity == 20
DefaultFrequency == 20
DefaultPattern == "gothic"

\* range inputs, lines 255-277 (frequency in thousandths), and the select, 244-247
SliderIntensityMin == 5
SliderIntensityMax == 50
SliderFrequencyMin == 5
SliderFrequencyMax == 50

SliderIntensities ==
    {v \in SliderIntensityMin..SliderIntensityMax : v <= MaxSliderIntensity}

\* positions of the frequency slider the model moves it to
SliderFrequencies ==
    {v \in SliderFrequencyMin..SliderFrequencyMax : v \in {5, 20, 35, 50}}

\* the pictures the user uploads
AppImageSizes == {<<8, 8>>, <<9, 8>>}

AppImages == {Picture(s[1], s[2], k) : s \in AppImageSizes, k \in Paints}

\* a canvas element without width/height attributes (line 355) is 300 x 150,
\* transparent black
DefaultCanvasWidth == 300
DefaultCanvasHeight == 150

BlankCanvas(width, height) ==
    [width |-> width, height |-> height, pixels |-> <<>>]

\* variant: the canvas is redrawn only when its size changes, so the filter
\* reads the previous result
DrawImageIfResized(cv, img) ==
    IF cv.width = img.width /\ cv.height = img.height /\ DOMAIN cv.pixels # {}
    THEN cv
    ELSE [width |-> img.width, height |-> img.height,
          pixels |-> [i \in 0..(img.width * img.height - 1) |-> img.pixels[i]]]

\* lines 110-115: resize, clear, draw the original image at (0, 0)
DrawImage(cv, img) ==
    [width |-> img.width, height |-> img.height,
     pixels |-> [i \in 0..(img.width * img.height - 1) |-> img.pixels[i]]]

\* lines 128-129: clear, then put the processed buffer at (0, 0)
PutImageData(cv, buffer) ==
    [cv EXCEPT !.pixels = [i \in 0..(cv.width * cv.height - 1) |-> buffer[i]]]

\* line 132: the PNG encoding of the canvas (lossless: size and every pixel)
ToDataURL(cv) ==
    [mime |-> "image/png", width |-> cv.width, height |-> cv.height,
     pixels |-> [i \in 0..(cv.width * cv.height - 1) |-> PixelAt(cv, i)]]

\* line 106: canvas.getContext('2d') returns the canvas's context once it has
\* one; before that it creates one or returns null
GetContextOutcomes == IF contextMode = "2d" THEN {TRUE} ELSE {TRUE, FALSE}

\* processImage, lines 101-134, run by the effect of lines 136-140 with the
\* values of the render that scheduled it
ProcessImage(img, intensity, frequency, pattern) ==
    IF img = NoImage
    THEN UNCHANGED <<processedImage, isProcessing, canvas, contextMode>>
    ELSE \E ctxOk \in GetContextOutcomes :
            IF ~ctxOk
            THEN /\ isProcessing' = TRUE
                 /\ UNCHANGED <<processedImage, canvas, contextMode>>
            ELSE LET drawn == DrawImage(canvas, img)
                     h == CreateRippleEffect(drawn, drawn.width, drawn.height,
                                             intensity, frequency, pattern)
                     shown == PutImageData(drawn, h[ReturnedBuffer])
                 IN  /\ contextMode' = "2d"
                     /\ canvas' = shown
                     /\ processedImage' = ToDataURL(shown)
                     /\ isProcessing' = FALSE

\* img.onload of handleImageUpload / handleDrop, lines 142-167
SetImage(img) ==
    /\ image' = img
    /\ ProcessImage(img, rippleIntensity, rippleFrequency, wavePattern)
    /\ UNCHANGED <<rippleIntensity, rippleFrequency, wavePattern, callVars>>

\* line 260
SetRippleIntensity(v) ==
    /\ v # rippleIntensity
    /\ rippleIntensity' = v
    /\ ProcessImage(image, v, rippleFrequency, wavePattern)
    /\ UNCHANGED <<image, rippleFrequency, wavePattern, callVars>>

\* line 275
SetRippleFrequency(v) ==
    /\ v # rippleFrequency
    /\ rippleFrequency' = v
    /\ ProcessImage(image, rippleIntensity, v, wavePattern)
    /\ UNCHANGED <<image, rippleIntensity, wavePattern, callVars>>

\* line 241
SetWavePattern(p) ==
    /\ p # wavePattern
    /\ wavePattern' = p
    /\ ProcessImage(image, rippleIntensity, rippleFrequency, p)
    /\ UNCHANGED <<image, rippleIntensity, rippleFrequency, callVars>>

InitApp ==
    /\ image = NoImage
    /\ processedImage = NoImage
    /\ rippleIntensity = DefaultIntensity
    /\ rippleFrequency = DefaultFrequency
    /\ wavePattern = DefaultPattern
    /\ isProcessing = FALSE
    /\ contextMode = "none"

Init ==
    /\ InitApp
    /\ canvas = BlankCanvas(DefaultCanvasWidth, DefaultCanvasHeight)
    /\ args = NoArgs
    /\ heap = NoHeap
    /\ returned = "none"
    /\ pc = "ready"

Next ==
    \/ \E img \in AppImages : SetImage(img)
    \/ \E v \in SliderIntensities : SetRippleIntensity(v)
    \/ \E v \in SliderFrequencies : SetRippleFrequency(v)
    \/ \E p \in Patterns : SetWavePattern(p)

Spec == Init /\ [][Next]_vars

-----------------------------------------------------------------------------
(* The filter on its own: one invocation on a drawn canvas *)

InitFilter ==
    /\ InitApp
    /\ canvas \in FilterCanvases
    /\ args \in FilterArgs(canvas)
    /\ heap = NoHeap
    /\ returned = "none"
    /\ pc = "ready"

\* the call and its return
Call ==
    /\ pc = "ready"
    /\ heap' = CreateRippleEffect(canvas, args.width, args.height, args.intensity,
                                  args.frequency, args.pattern)
    /\ returned' = ReturnedBuffer
    /\ pc' = "returned"
    /\ UNCHANGED <<appVars, canvas, args>>

\* the caller drops the result; the same call may be made again
Release ==
    /\ pc = "returned"
    /\ heap' = NoHeap
    /\ returned' = "none"
    /\ pc' = "ready"
    /\ UNCHANGED <<appVars, canvas, args>>

NextFilter == Call \/ Release

FilterSpec == InitFilter /\ [][NextFilter]_vars

-----------------------------------------------------------------------------
(* Properties.  The ones about createRippleEffect are stated of the state    *)
(* in which a call has returned, under FilterSpec; the ones about the        *)
(* component under Spec.                                                     *)

Returned == pc = "returned"
Indices == 0..(args.width * args.height - 1)
XOf(i) == i % args.width
YOf(i) == i \div args.width
Source(i) == PixelAt(canvas, i)
Output(i) == heap[returned][i]

\* min(x, width - x, y, height - y), written out independently of the model
EdgeDistance(x, y, width, height) ==
    CHOOSE m \in {x, width - x, y, height - y} :
        \A k \in {x, width - x, y, height - y} : m <= k

DistOf(i) == EdgeDistance(XOf(i), YOf(i), args.width, args.height)
WaveOf(i) == WaveValue(XOf(i), YOf(i), args.frequency, args.pattern)

\* C1: the output has the source's dimensions and every output pixel is
\* either the source pixel at the same place, channel for channel, or
\* (0, 0, 0, 0); nothing else is ever produced.
C1_CopyOrTransparent ==
    Returned =>
        /\ DOMAIN heap[returned] = Indices
        /\ \A i \in Indices : Output(i) = Source(i) \/ Output(i) = TransparentBlack

\* a half-transparent pixel was copied and a visible pixel was discarded
C1_Witness ==
    /\ Returned
    /\ \E i \in Indices : Source(i)[4] = 128 /\ Output(i) = Source(i)
    /\ \E i \in Indices : Source(i) # TransparentBlack /\ Output(i) = TransparentBlack

\* C2: interior invariance: a pixel whose edge distance is at least
\* 2 * intensity comes out equal to the source pixel, whatever the pattern
\* and the frequency.
C2_InteriorInvariance ==
    Returned =>
        \A i \in Indices :
            DistOf(i) >= 2 * args.intensity => Output(i) = Source(i)

\* a call with intensity >= 1 that has both a visible interior pixel and a
\* discarded border pixel
C2_Witness ==
    /\ Returned
    /\ args.intensity >= 1
    /\ \E i \in Indices :
          /\ DistOf(i) >= 2 * args.intensity
          /\ Source(i) # TransparentBlack
          /\ Output(i) = Source(i)
    /\ \E i \in Indices : Source(i) # TransparentBlack /\ Output(i) = TransparentBlack

\* C3: border-zone rule: a pixel with edge distance d < 2 * intensity and
\* wave value w is transparent exactly when
\* d + w * (intensity - d) * 0.3 < intensity * 0.8, and otherwise is the
\* source pixel, alpha included.
C3_BorderRule ==
    Returned =>
        \A i \in Indices :
            DistOf(i) < 2 * args.intensity =>
                Output(i) =
                    IF 10 * Scale * DistOf(i)
                           + 3 * WaveOf(i) * (args.intensity - DistOf(i))
                         < 8 * Scale * args.intensity
                    THEN TransparentBlack
                    ELSE Source(i)

\* in one call a visible border pixel is discarded, and a visible pixel
\* nearer to the edge than intensity is kept because its wave value is high
C3_Witness ==
    /\ Returned
    /\ \E i \in Indices :
          /\ DistOf(i) < 2 * args.intensity
          /\ Source(i) # TransparentBlack
          /\ Output(i) = TransparentBlack
    /\ \E i \in Indices :
          /\ DistOf(i) < args.intensity
          /\ Source(i) # TransparentBlack
          /\ Output(i) = Source(i)

\* C4: a call with intensity < 1 or frequency <= 0 is rejected and hands
\* back no output buffer.
C4_InvalidRejected ==
    (Returned /\ (args.intensity < 1 \/ args.frequency <= 0)) => returned = "none"

\* C5: the filter does not write to its source: when the call has returned
\* the source buffer still holds the canvas's pixels, and the buffer handed
\* back is another buffer than the source.
C5_SourceUntouched ==
    Returned =>
        /\ DOMAIN heap["imageData"] = Indices
        /\ \A i \in Indices : heap["imageData"][i] = Source(i)
        /\ returned # "imageData"

\* the output differs from a source that has visible pixels
C5_Witness ==
    /\ Returned
    /\ \E i \in Indices : Source(i)[4] # 0 /\ Output(i) # Source(i)
    /\ \E i \in Indices : Source(i)[4] # 0 /\ Output(i) = Source(i)

\* the filter applied once to the original image with the current parameters
AppliedOnce ==
    LET cv == DrawImage(BlankCanvas(image.width, image.height), image)
        h == CreateRippleEffect(cv, image.width, image.height, rippleIntensity,
                                rippleFrequency, wavePattern)
    IN  [mime |-> "image/png", width |-> image.width, height |-> image.height,
         pixels |-> h["newImageData"]]

\* C6: history independence: whatever uploads and parameter changes came
\* before, the processed result is the filter applied once to the original
\* image with the current parameters.
C6_HistoryIndependent ==
    (image # NoImage /\ processedImage # NoImage) => processedImage = AppliedOnce

\* all three parameters were changed, and the result shows kept and
\* discarded pixels
C6_Witness ==
    /\ image # NoImage
    /\ processedImage # NoImage
    /\ rippleIntensity # DefaultIntensity
    /\ rippleFrequency # DefaultFrequency
    /\ wavePattern # DefaultPattern
    /\ \E i \in DOMAIN processedImage.pixels :
          /\ image.pixels[i] # TransparentBlack
          /\ processedImage.pixels[i] = image.pixels[i]
    /\ \E i \in DOMAIN processedImage.pixels :
          /\ image.pixels[i] # TransparentBlack
          /\ processedImage.pixels[i] = TransparentBlack

\* C7: the edge distance is min(x, width - x, y, height - y): never
\* negative, 0 exactly on the left column and the top row, and 1 (not 0) on
\* the right column and the bottom row away from x = 0 and y = 0.
C7_EdgeDistance ==
    \A x \in 0..(args.width - 1), y \in 0..(args.height - 1) :
        LET d == MinDistFromEdge(x, y, args.width, args.height)
        IN  /\ d = EdgeDistance(x, y, args.width, args.height)
            /\ d >= 0
            /\ (d = 0) <=> (x = 0 \/ y = 0)
            /\ (x > 0 /\ y > 0 /\ (x = args.width - 1 \/ y = args.height - 1)) => d = 1

\* a returned call in which the bottom-right pixel, at distance 1, is in the
\* border zone and kept while the top-left one is discarded
C7_Witness ==
    /\ Returned
    /\ args.width >= 3
    /\ args.height >= 3
    /\ args.intensity = 1
    /\ MinDistFromEdge(args.width - 1, args.height - 1, args.width, args.height) = 1
    /\ Source(args.width * args.height - 1) # TransparentBlack
    /\ Output(args.width * args.height - 1) = Source(args.width * args.height - 1)
    /\ Output(0) = TransparentBlack

\* C8: for intensity >= 1 the wave value at (0, 0) is 0 or 1 for every
\* pattern and frequency, and output pixel (0, 0) is (0, 0, 0, 0); a 1 x 1
\* image therefore comes out as one transparent pixel.
C8_CornerDiscarded ==
    (Returned /\ args.intensity >= 1) =>
        /\ WaveValue(0, 0, args.frequency, args.pattern) \in {0, Scale}
        /\ Output(0) = TransparentBlack

\* a 1 x 1 visible image, filtered
C8_Witness ==
    /\ Returned
    /\ args.intensity >= 1
    /\ args.width = 1
    /\ args.height = 1
    /\ Source(0) # TransparentBlack
    /\ Output(0) = TransparentBlack

\* C9: with the wave value in [-3, 3], a pixel whose edge distance is at
\* least intensity is kept, also inside the band
\* intensity <= distance < 2 * intensity.
C9_OuterBandKept ==
    Returned =>
        \A i \in Indices :
            (/\ DistOf(i) >= args.intensity
             /\ WaveOf(i) >= 0 - 3 * Scale
             /\ WaveOf(i) <= 3 * Scale) => Output(i) = Source(i)

\* a visible pixel strictly inside the outer band, with a wave value that
\* pulls the cutoff down, is kept
C9_Witness ==
    /\ Returned
    /\ \E i \in Indices :
          /\ DistOf(i) > args.intensity
          /\ DistOf(i) < 2 * args.intensity
          /\ WaveOf(i) > Scale
          /\ Source(i) # TransparentBlack
          /\ Output(i) = Source(i)

\* C10: between two handlers no processing runs, so the processing
\* indicator is off.
C10_IndicatorNotStuck == isProcessing = FALSE

====
